---- MODULE Spec2Model ----
(***************************************************************************)
(* XParserClient (src/xparser_client.py): an asyncio client that bounds    *)
(* its HTTP POSTs with an asyncio.Semaphore, maps HTTP failures to Python  *)
(* exceptions, fans a batch out with asyncio.gather, and probes /health.   *)
(*                                                                         *)
(* One call slot per coroutine invocation of parse_document /              *)
(* parse_document_chunk / _safe_parse_document.  A step of the model is    *)
(* the code a coroutine runs between two suspension points of the event    *)
(* loop (the semaphore's future and the network await).                    *)
(***************************************************************************)
EXTENDS Integers, Sequences, FiniteSets, TLC

\* ---------------------------------------------------------------- bounds
NCalls == 3
MaxConcurrent == 2
\* max_concurrent when the constructor is not given one
DefaultMaxConcurrent == 10

Calls == 1..NCalls
\* The documents a batch names, and the one the direct calls ask for.
Refs == {"a.pdf", "b.pdf"}
DirectRefs == {"a.pdf"}

VARIABLES
    max_concurrent,  \* the constructor's argument
    sem_value,       \* asyncio.Semaphore._value
    sem_waiters,     \* asyncio.Semaphore._waiters: call ids, oldest first
    holds,           \* per call: limiter units it holds
    kind,            \* per call: "none" | "parse" | "chunk" | "safe"
    pc,              \* per call: position of the coroutine
    saved_filename,  \* per call: argument
    bucket_name,     \* per call: argument
    options,         \* per call: argument
    caller_options,  \* per call: the caller's options object once the call has read it
    request,         \* per call: the POST it issued
    posts,           \* per call: the POSTs it has issued so far
    response,        \* per call: what the transport delivered
    result,          \* per call: what the coroutine returned or raised
    fault,           \* the failure the remote service is prone to while the client lives
    batch,           \* the batch_parse_documents invocation
    probe            \* the check_health / get_server_info invocation

vars == <<max_concurrent, sem_value, sem_waiters, holds, kind, pc,
          saved_filename, bucket_name, options, caller_options, request,
          posts, response, result, fault, batch, probe>>

\* ------------------------------------------------------- Python values
\* A response body text: {"key": "val"}, {} (key = ""), [], null, or text
\* that is not JSON.
Text(syntax, key, val) == [syntax |-> syntax, key |-> key, val |-> val]
NoText == Text("none", "", "")

\* A decoded Python value.
Value(type, key, val) == [type |-> type, key |-> key, val |-> val]
None == Value("NoneType", "", "")

\* json.loads as response.json() applies it: a JSON text decodes to the
\* Python value of its syntax; anything else fails.
JsonDecodable(text) == text.syntax \in {"object", "array", "null"}
JsonLoads(text) ==
    CASE text.syntax = "object" -> Value("dict", text.key, text.val)
      [] text.syntax = "array" -> Value("list", "", "")
      [] text.syntax = "null" -> None

Str(s) == Text("plain", "", s)

\* --------------------------------------------------- exception classes
\* The base class of each exception class the client raises, catches or
\* lets through (builtins, json, httpx).
Parent(cls) ==
    CASE cls = "JSONDecodeError" -> "ValueError"
      [] cls = "FileNotFoundError" -> "OSError"
      [] cls = "HTTPStatusError" -> "HTTPError"
      [] cls = "ConnectError" -> "TransportError"
      [] cls = "ReadTimeout" -> "TransportError"
      [] cls = "TransportError" -> "RequestError"
      [] cls = "RequestError" -> "HTTPError"
      [] cls = "CancelledError" -> "BaseException"
      [] cls = "BaseException" -> "BaseException"
      [] cls = "Exception" -> "BaseException"
      [] OTHER -> "Exception"

\* isinstance(e, base) for an exception e of class cls: what an except
\* clause tests.
RECURSIVE IsInstance(_, _)
IsInstance(cls, base) ==
    IF cls = base THEN TRUE
    ELSE IF cls = "BaseException" THEN FALSE
    ELSE \E parent \in {Parent(cls)} : IsInstance(parent, base)

\* ------------------------------------------------ results of a coroutine
Pending == [tag |-> "pending", cls |-> "", value |-> None,
            prefix |-> "", arg |-> NoText, status |-> -1]
Return(v) == [tag |-> "return", cls |-> "", value |-> v,
              prefix |-> "", arg |-> NoText, status |-> -1]
\* An exception of class cls, built from a message prefix and its argument;
\* status is the response status the exception object carries (-1: none).
Raise(cls, prefix, arg, status) ==
    [tag |-> "raise", cls |-> cls, value |-> None,
     prefix |-> prefix, arg |-> arg, status |-> status]

\* ------------------------------------------------------ transport, server
NoResponse == [tag |-> "none", status_code |-> -1, text |-> NoText, exc |-> ""]
HttpResponse(status, text) ==
    [tag |-> "response", status_code |-> status, text |-> text, exc |-> ""]
\* The await on the transport raised instead of delivering a response.
TransportFailure(exc) ==
    [tag |-> "error", status_code |-> -1, text |-> NoText, exc |-> exc]

TransportErrors == {"ConnectError", "ReadTimeout"}
ErrorStatuses == {400, 404, 500, 503}
NotJson == Text("invalid", "", "<html>")
ErrorBody == Text("object", "detail", "failed")

\* The ways a POST can fail: an error status, a 200 whose body is not JSON,
\* or no response at all.
Failures ==
    {HttpResponse(s, ErrorBody) : s \in ErrorStatuses}
    \cup {HttpResponse(200, NotJson)}
    \cup {TransportFailure(e) : e \in TransportErrors}

\* What the remote service may answer to a POST for document f: the parse
\* of f, or the failure it is prone to.  One behaviour has one failure mode
\* (fault, any of Failures) so that the state space stays checkable; each POST
\* still succeeds or fails on its own.  The calls share nothing but the
\* semaphore, whose release does not look at the outcome.
ParseResponses(f) == {HttpResponse(200, Text("object", "name", f)), fault}

\* httpx.Response.is_success
IsSuccess(status) == 200 <= status /\ status <= 299

\* ------------------------------------------- parse_document, the handlers
\* The try block: await client.post, response.raise_for_status(),
\* response.json().  Gives the value returned or the exception raised in it.
TryPost(resp) ==
    IF resp.tag = "error" THEN Raise(resp.exc, "", NoText, -1)
    ELSE IF ~IsSuccess(resp.status_code)
        THEN Raise("HTTPStatusError", "", resp.text, resp.status_code)
    ELSE IF ~JsonDecodable(resp.text)
        THEN Raise("JSONDecodeError", "", NoText, -1)
    ELSE Return(JsonLoads(resp.text))

\* Except clauses that take 404 for a bad request.
ExceptParseSwapped(resp, f, tried) ==
    IF tried.tag = "raise" /\ IsInstance(tried.cls, "HTTPStatusError") THEN
        IF resp.status_code \in {400, 404}
            THEN Raise("ValueError", "bad request", resp.text, -1)
        ELSE IF resp.status_code = 500
            THEN Raise("RuntimeError", "server error", resp.text, -1)
        ELSE tried
    ELSE tried

\* The except clauses of parse_document, applied to what the try block gave.
ExceptParse(resp, f, tried) ==
    IF tried.tag = "raise" /\ IsInstance(tried.cls, "HTTPStatusError") THEN
        IF resp.status_code = 400
            THEN Raise("ValueError", "bad request", resp.text, -1)
        ELSE IF resp.status_code = 404
            THEN Raise("FileNotFoundError", "no such file", Str(f), -1)
        ELSE IF resp.status_code = 500
            THEN Raise("RuntimeError", "server error", resp.text, -1)
        ELSE tried
    ELSE tried

\* The except clauses of parse_document_chunk.
ExceptChunk(resp, f, tried) ==
    IF tried.tag = "raise" /\ IsInstance(tried.cls, "HTTPStatusError") THEN
        IF resp.status_code = 400
            THEN Raise("ValueError", "bad request", resp.text, -1)
        ELSE IF resp.status_code = 404
            THEN Raise("FileNotFoundError", "no such file", Str(f), -1)
        ELSE IF resp.status_code = 500
            THEN Raise("RuntimeError", "server error", resp.text, -1)
        ELSE tried
    ELSE tried

\* A wrapper that catches httpx's errors only.
SafeParseHttpOnly(parsed) ==
    IF parsed.tag = "raise" /\ IsInstance(parsed.cls, "HTTPError")
        THEN Return(None)
    ELSE parsed

\* _safe_parse_document: except Exception turns what parse_document raised
\* into None.
SafeParse(parsed) ==
    IF parsed.tag = "raise" /\ IsInstance(parsed.cls, "Exception")
        THEN Return(None)
    ELSE parsed

\* What the coroutine of a call of kind k gives once its POST has ended.
Outcome(k, resp, f) ==
    CASE k = "parse" -> ExceptParse(resp, f, TryPost(resp))
      [] k = "chunk" -> ExceptChunk(resp, f, TryPost(resp))
      [] k = "safe" -> SafeParse(ExceptParse(resp, f, TryPost(resp)))

\* -------------------------------------------------------------- options
\* A dict of options: a function from its keys to their values (Python's
\* True and False written as strings).  An options argument is None
\* (given = FALSE) or a dict.
EmptyDict == [k \in {} |-> ""]
NoOptions == [given |-> FALSE, map |-> EmptyDict]
Options(map) == [given |-> TRUE, map |-> map]

\* if options: None and the empty dict are false.
Truthy(o) == o.given /\ DOMAIN o.map # {}

\* A merge in which the defaults win over the caller's keys.
DictUpdateKeepingOld(d, o) ==
    [k \in DOMAIN d \cup DOMAIN o |-> IF k \in DOMAIN d THEN d[k] ELSE o[k]]

\* d.update(o), as the value of d afterwards.
DictUpdate(d, o) ==
    [k \in DOMAIN d \cup DOMAIN o |-> IF k \in DOMAIN o THEN o[k] ELSE d[k]]

\* default_options of _build_options
DefaultOptions ==
    ("response_format" :> "layout_json") @@ ("include_bbox" :> "True")
    @@ ("id_marker" :> "True") @@ ("group_markers" :> "True")
    @@ ("use_xparser_description" :> "True")

\* default_options of _build_options_v2
DefaultOptionsV2 ==
    ("use_ai_description" :> "True") @@ ("table_format" :> "markdown")

\* Options built on top of what the calls before have sent to the endpoint.
BuildOptionsShared(o) ==
    LET sent == {c \in Calls : posts[c] > 0 /\ kind[c] # "chunk"}
        base == IF sent = {} THEN DefaultOptions
                ELSE request[CHOOSE c \in sent : \A d \in sent : d <= c].options
    IN  IF Truthy(o) THEN DictUpdate(base, o.map) ELSE base

\* _build_options
BuildOptions(o) ==
    IF Truthy(o) THEN DictUpdate(DefaultOptions, o.map) ELSE DefaultOptions

\* _build_options_v2
BuildOptionsV2(o) ==
    IF Truthy(o) THEN DictUpdate(DefaultOptionsV2, o.map) ELSE DefaultOptionsV2

\* The caller's options object after the call has built its own from it:
\* update() writes to default_options and only reads its argument.
CallerOptionsAfter(o) == o

\* ------------------------------------------------------------- requests
NoBucket == "<None>"
DefaultBucket == "aidoc"
NoRequest == [method |-> "", path |-> "", saved_filename |-> "",
              bucket_name |-> "", options |-> EmptyDict]

\* The POST a call issues: the endpoint of its coroutine and request_data.
BuildRequest(k, f, b, o) ==
    [method |-> "POST",
     path |-> IF k = "chunk" THEN "/api/v2/chunk" ELSE "/api/v2/parse",
     saved_filename |-> f,
     bucket_name |-> b,
     options |-> IF k = "chunk" THEN BuildOptionsV2(o) ELSE BuildOptions(o)]


\* ---------------------------------------------------- asyncio.Semaphore
\* The limiter and the calls it admits, as one value the semaphore's methods
\* transform: value and waiters are Semaphore._value and ._waiters.
Limiter == [value |-> sem_value, waiters |-> sem_waiters, pc |-> pc,
            holds |-> holds, request |-> request, posts |-> posts]

\* A limiter that never refuses.
LockedNever(st) == FALSE

\* Semaphore.locked(): no unit left, or somebody is queued (no waiter of the
\* model is ever cancelled).
Locked(st) == st.value = 0 \/ st.waiters # <<>>

\* The first queued call whose future is not done yet, 0 if there is none.
FirstWaiting(waiters, p) ==
    LET idx == {i \in 1..Len(waiters) : p[waiters[i]] = "waiting"}
    IN  IF idx = {} THEN 0
        ELSE waiters[CHOOSE i \in idx : \A j \in idx : i <= j]

\* A release that leaves the queue asleep.
WakeUpNobody(st) == st

\* Semaphore._wake_up_next(): the first queued call whose future is not done
\* gets a unit and its future is set.
WakeUpNext(st) ==
    LET w == FirstWaiting(st.waiters, st.pc)
    IN  IF w = 0 THEN st
        ELSE [st EXCEPT !.value = @ - 1, !.pc[w] = "woken", !.holds[w] = @ + 1]

\* Semaphore.release() by call c.
Release(st, c) ==
    WakeUpNext([st EXCEPT !.value = @ + 1, !.holds[c] = @ - 1])

\* The unit given back only when the block returned.
ReleasesOnReturn(res) == res.tag = "return"

\* async with self.semaphore gives the unit back on every way out of the
\* block, whatever the block returned or raised.
ReleasesOn(res) == TRUE

Remove(waiters, c) == SelectSeq(waiters, LAMBDA w : w # c)

\* The coroutine of call c runs from its start to its first suspension:
\* async with self.semaphore, then request_data and client.post.  With a
\* unit free and nobody queued, acquire() returns at once and the POST goes
\* out in the same step; otherwise the call queues on the semaphore.
Enter(st, c, req) ==
    IF ~Locked(st)
        THEN [st EXCEPT !.value = @ - 1, !.holds[c] = @ + 1,
                        !.pc[c] = "inflight", !.request[c] = req,
                        !.posts[c] = @ + 1]
    ELSE [st EXCEPT !.waiters = Append(@, c), !.pc[c] = "waiting"]

\* A queued call whose future was set runs again: acquire() takes it off the
\* queue, passes a spare unit on if there is one, and returns; the block
\* builds request_data and posts.
Resumed(st, c, req) ==
    LET st1 == [st EXCEPT !.waiters = Remove(@, c), !.pc[c] = "inflight",
                          !.request[c] = req, !.posts[c] = @ + 1]
    IN  IF st1.value > 0 THEN WakeUpNext(st1) ELSE st1

\* A client where a call that raises takes the queued calls down with it.
LeftCancellingQueued(st, c, res) ==
    LET st1 == IF res.tag = "raise"
                  THEN [st EXCEPT
                          !.pc = [d \in Calls |->
                                    IF st.pc[d] = "waiting" THEN "done"
                                    ELSE st.pc[d]],
                          !.waiters = SelectSeq(@, LAMBDA w : st.pc[w] # "waiting")]
               ELSE st
    IN  Release([st1 EXCEPT !.pc[c] = "done"], c)

\* A client that posts once more when the first POST did not give a document.
LeftRetrying(st, c, res) ==
    IF (res.tag = "raise" \/ res = Return(None)) /\ st.posts[c] < 2
        THEN [st EXCEPT !.posts[c] = @ + 1]
    ELSE IF ReleasesOn(res) THEN Release([st EXCEPT !.pc[c] = "done"], c)
    ELSE [st EXCEPT !.pc[c] = "done"]

\* The POST of call c has ended and the coroutine has run to its end with
\* res: the async with block is left.
Left(st, c, res) ==
    LET st1 == [st EXCEPT !.pc[c] = "done"]
    IN  IF ReleasesOn(res) THEN Release(st1, c) ELSE st1

\* ------------------------------------------------- asyncio.gather, batch
\* overtaken records that the POST of some item ended while the POST of an
\* item before it in the list had not.
NoBatch == [pc |-> "idle", refs |-> <<>>, tasks |-> <<>>, results |-> <<>>,
            overtaken |-> FALSE]

\* Call c is an item of the batch and an item before it has not ended.
Overtakes(c) ==
    \E i, j \in 1..Len(batch.tasks) :
        j < i /\ batch.tasks[i] = c /\ pc[batch.tasks[j]] # "done"

\* A wait that ends with the first task done.
GatherAnyDone(tasks) == \E i \in 1..Len(tasks) : pc[tasks[i]] = "done"

\* await asyncio.gather(*tasks, return_exceptions=True) resumes once every
\* task is done.
GatherDone(tasks) == \A i \in 1..Len(tasks) : pc[tasks[i]] = "done"

\* What gather gives: each task's outcome at the task's own position.
Gather(tasks) == [i \in 1..Len(tasks) |-> result[tasks[i]]]

\* A loop that keeps the successes only.
ProcessResultsDroppingFailures(results) ==
    LET kept == SelectSeq(results, LAMBDA r : r.tag = "return" /\ r.value # None)
    IN  [i \in 1..Len(kept) |-> kept[i].value]

\* The loop over enumerate(results): an Exception instance becomes None,
\* anything else is appended as it is.
ProcessResults(results) ==
    [i \in 1..Len(results) |->
        IF results[i].tag = "raise"
            THEN IF IsInstance(results[i].cls, "Exception") THEN None
                 ELSE Value("exception", results[i].cls, "")
        ELSE results[i].value]

\* ------------------------------------------------ check_health, server info
PyTrue == Value("bool", "", "True")
PyFalse == Value("bool", "", "False")
Bool(b) == IF b THEN PyTrue ELSE PyFalse

\* dict.get(k) on a decoded mapping of at most one key.
DictGet(d, k) == IF d.key = k THEN d.val ELSE "<None>"

HealthResponses ==
    {HttpResponse(200, Text("object", "status", "healthy")),
     HttpResponse(200, Text("object", "status", "degraded")),
     HttpResponse(200, Text("object", "", "")),
     HttpResponse(200, Text("array", "", "")),
     HttpResponse(200, NotJson),
     HttpResponse(201, Text("object", "status", "healthy")),
     HttpResponse(503, ErrorBody),
     HttpResponse(503, Text("object", "status", "healthy"))}
    \cup {TransportFailure(e) : e \in TransportErrors}

\* A health check that reads the body whatever the status.
CheckHealthTryAnyStatus(resp) ==
    IF resp.tag = "error" THEN Raise(resp.exc, "", NoText, -1)
    ELSE IF ~JsonDecodable(resp.text) THEN Raise("JSONDecodeError", "", NoText, -1)
    ELSE LET health_data == JsonLoads(resp.text)
         IN  IF health_data.type # "dict"
                 THEN Raise("AttributeError", "", NoText, -1)
             ELSE Return(Bool(DictGet(health_data, "status") = "healthy"))

\* check_health: the try block, then except Exception -> False.
CheckHealthTry(resp) ==
    IF resp.tag = "error" THEN Raise(resp.exc, "", NoText, -1)
    ELSE IF resp.status_code = 200 THEN
        IF ~JsonDecodable(resp.text) THEN Raise("JSONDecodeError", "", NoText, -1)
        ELSE LET health_data == JsonLoads(resp.text)
             IN  IF health_data.type # "dict"
                     THEN Raise("AttributeError", "", NoText, -1)
                 ELSE Return(Bool(DictGet(health_data, "status") = "healthy"))
    ELSE Return(PyFalse)

CheckHealth(resp) ==
    LET tried == CheckHealthTry(resp)
    IN  IF tried.tag = "raise" /\ IsInstance(tried.cls, "Exception")
            THEN Return(PyFalse)
        ELSE tried

\* A server info that never looks at the status.
GetServerInfoTryNoRaise(resp) ==
    IF resp.tag = "error" THEN Raise(resp.exc, "", NoText, -1)
    ELSE IF ~JsonDecodable(resp.text)
        THEN Raise("JSONDecodeError", "", NoText, -1)
    ELSE Return(JsonLoads(resp.text))

\* get_server_info: the try block, then except Exception -> None.
GetServerInfoTry(resp) ==
    IF resp.tag = "error" THEN Raise(resp.exc, "", NoText, -1)
    ELSE IF ~IsSuccess(resp.status_code)
        THEN Raise("HTTPStatusError", "", resp.text, resp.status_code)
    ELSE IF ~JsonDecodable(resp.text)
        THEN Raise("JSONDecodeError", "", NoText, -1)
    ELSE Return(JsonLoads(resp.text))

GetServerInfo(resp) ==
    LET tried == GetServerInfoTry(resp)
    IN  IF tried.tag = "raise" /\ IsInstance(tried.cls, "Exception")
            THEN Return(None)
        ELSE tried

NoProbe == [op |-> "none", pc |-> "idle", request |-> NoRequest,
            response |-> NoResponse, result |-> Pending]


\* ------------------------------------------------------------------ Init
\* The client right after __init__: the semaphore holds max_concurrent
\* units, nobody waits, no coroutine has been created.
Constructed(capacities, faults) ==
    /\ max_concurrent \in capacities
    /\ fault \in faults
    /\ sem_value = max_concurrent
    /\ sem_waiters = <<>>
    /\ holds = [c \in Calls |-> 0]
    /\ kind = [c \in Calls |-> "none"]
    /\ pc = [c \in Calls |-> "idle"]
    /\ saved_filename = [c \in Calls |-> ""]
    /\ bucket_name = [c \in Calls |-> ""]
    /\ options = [c \in Calls |-> NoOptions]
    /\ caller_options = [c \in Calls |-> NoOptions]
    /\ posts = [c \in Calls |-> 0]
    /\ request = [c \in Calls |-> NoRequest]
    /\ response = [c \in Calls |-> NoResponse]
    /\ result = [c \in Calls |-> Pending]
    /\ batch = NoBatch
    /\ probe = NoProbe

Init == Constructed(0..MaxConcurrent, Failures)

\* Call slots are handed out in the order the coroutines are created.
FreeSlots == {c \in Calls : pc[c] = "idle"}
NextFree == CHOOSE c \in FreeSlots : \A d \in FreeSlots : c <= d

\* The limiter and the calls become st.
Become(st) ==
    /\ sem_value' = st.value
    /\ sem_waiters' = st.waiters
    /\ pc' = st.pc
    /\ holds' = st.holds
    /\ request' = st.request
    /\ posts' = st.posts

\* --------------------------------------------------------------- actions
\* A caller awaits parse_document(f, options=o) or
\* parse_document_chunk(f, options=o) (k says which), bucket_name left at its
\* default.
Call(k, f, o) ==
    /\ FreeSlots # {}
    /\ LET c == NextFree
       IN  /\ kind' = [kind EXCEPT ![c] = k]
           /\ saved_filename' = [saved_filename EXCEPT ![c] = f]
           /\ bucket_name' = [bucket_name EXCEPT ![c] = DefaultBucket]
           /\ options' = [options EXCEPT ![c] = o]
           /\ Become(Enter(Limiter, c, BuildRequest(k, f, DefaultBucket, o)))
           /\ caller_options' = [caller_options EXCEPT ![c] =
                 IF pc'[c] = "inflight" THEN CallerOptionsAfter(o) ELSE o]
    /\ UNCHANGED <<max_concurrent, fault, response, result, batch, probe>>

ParseDocument(f) == Call("parse", f, NoOptions)

ParseDocumentChunk(f) == Call("chunk", f, NoOptions)

\* The first steps of the tasks gather made of the coroutines, in the order
\* of their creation (the event loop runs its ready queue first in, first
\* out): task i is _safe_parse_document(refs[i]), which calls
\* parse_document(refs[i], None, options).
RECURSIVE StartTasks(_, _, _, _, _)
StartTasks(st, tasks, refs, o, i) ==
    IF i > Len(tasks) THEN st
    ELSE StartTasks(Enter(st, tasks[i],
                          BuildRequest("safe", refs[i], NoBucket, o)),
                    tasks, refs, o, i + 1)

\* batch_parse_documents(refs, o) up to the point where every task has run
\* to its first suspension.  gather() of nothing is done at once, and the
\* call returns [].
BatchParseDocumentsWith(refs, o) ==
    /\ batch.pc = "idle"
    /\ Len(refs) <= Cardinality(FreeSlots)
    /\ LET tasks == [i \in 1..Len(refs) |-> NextFree + i - 1]
           mine == {tasks[i] : i \in 1..Len(refs)}
           at(c) == CHOOSE i \in 1..Len(refs) : tasks[i] = c
       IN  /\ batch' = IF refs = <<>>
                 THEN [pc |-> "done", refs |-> refs, tasks |-> tasks,
                       results |-> ProcessResults(Gather(tasks)),
                       overtaken |-> FALSE]
                 ELSE [pc |-> "gathering", refs |-> refs, tasks |-> tasks,
                       results |-> <<>>, overtaken |-> FALSE]
           /\ kind' = [c \in Calls |-> IF c \in mine THEN "safe" ELSE kind[c]]
           /\ saved_filename' = [c \in Calls |->
                 IF c \in mine THEN refs[at(c)] ELSE saved_filename[c]]
           /\ bucket_name' = [c \in Calls |->
                 IF c \in mine THEN NoBucket ELSE bucket_name[c]]
           /\ options' = [c \in Calls |-> IF c \in mine THEN o ELSE options[c]]
           /\ Become(StartTasks(Limiter, tasks, refs, o, 1))
           /\ caller_options' = [c \in Calls |->
                 IF c \notin mine THEN caller_options[c]
                 ELSE IF pc'[c] = "inflight" THEN CallerOptionsAfter(o) ELSE o]
    /\ UNCHANGED <<max_concurrent, fault, response, result, probe>>

BatchParseDocuments(refs) == BatchParseDocumentsWith(refs, NoOptions)

\* The event loop runs a call whose semaphore future was set.
Resume(c) ==
    /\ pc[c] = "woken"
    /\ Become(Resumed(Limiter, c,
                      BuildRequest(kind[c], saved_filename[c], bucket_name[c],
                                   options[c])))
    /\ caller_options' = [caller_options EXCEPT ![c] =
          CallerOptionsAfter(options[c])]
    /\ UNCHANGED <<max_concurrent, fault, kind, saved_filename, bucket_name,
                   options, response, result, batch, probe>>

\* The POST of call c ends with resp: the rest of the coroutine runs to its
\* end (raise_for_status, json, the except clauses, for a batch item the
\* except of _safe_parse_document) and the async with block is left.
Respond(c, resp) ==
    /\ pc[c] = "inflight"
    /\ response' = [response EXCEPT ![c] = resp]
    /\ LET res == Outcome(kind[c], resp, saved_filename[c])
       IN  /\ result' = [result EXCEPT ![c] = res]
           /\ Become(Left(Limiter, c, res))
    /\ batch' = [batch EXCEPT !.overtaken = @ \/ Overtakes(c)]
    /\ UNCHANGED <<max_concurrent, fault, kind, saved_filename, bucket_name,
                   options, caller_options, probe>>

\* batch_parse_documents after its await: the results are put in order and
\* returned.
BatchReturn ==
    /\ batch.pc = "gathering"
    /\ GatherDone(batch.tasks)
    /\ batch' = [batch EXCEPT !.pc = "done",
                              !.results = ProcessResults(Gather(batch.tasks))]
    /\ UNCHANGED <<max_concurrent, fault, sem_value, sem_waiters, holds, kind, pc,
                   saved_filename, bucket_name, options, caller_options,
                   request, posts, response, result,
                   probe>>

\* A probe that takes a unit of the semaphore before its GET.
ProbeStartThroughLimiter(op) ==
    /\ probe.pc = "idle"
    /\ ~Locked(Limiter)
    /\ sem_value' = sem_value - 1
    /\ probe' = [probe EXCEPT !.op = op, !.pc = "inflight",
           !.request = [method |-> "GET", path |-> "/health",
                        saved_filename |-> "", bucket_name |-> ""]]
    /\ UNCHANGED <<max_concurrent, fault, sem_waiters, holds, kind, pc,
                   saved_filename, bucket_name, options, caller_options,
                   request, posts, response, result, batch>>

\* check_health() / get_server_info() up to the await of client.get.
ProbeStart(op) ==
    /\ probe.pc = "idle"
    /\ probe' = [probe EXCEPT !.op = op, !.pc = "inflight",
           !.request = [method |-> "GET", path |-> "/health",
                        saved_filename |-> "", bucket_name |-> ""]]
    /\ UNCHANGED <<max_concurrent, fault, sem_value, sem_waiters, holds, kind, pc,
                   saved_filename, bucket_name, options, caller_options,
                   request, posts, response, result,
                   batch>>

\* The GET ends with resp and the probe runs to its return.
ProbeRespond(resp) ==
    /\ probe.pc = "inflight"
    /\ probe' = [probe EXCEPT !.pc = "done", !.response = resp,
           !.result = IF probe.op = "check_health" THEN CheckHealth(resp)
                      ELSE GetServerInfo(resp)]
    /\ UNCHANGED <<max_concurrent, fault, sem_value, sem_waiters, holds, kind, pc,
                   saved_filename, bucket_name, options, caller_options,
                   request, posts, response, result,
                   batch>>

\* The reference lists a caller may hand to batch_parse_documents.
RefLists == UNION {[1..n -> Refs] : n \in 0..NCalls}

Responds ==
    \E c \in Calls : \E resp \in ParseResponses(request[c].saved_filename) :
        Respond(c, resp)

\* The client under concurrent parse, chunk and batch calls.
Next ==
    \/ \E f \in DirectRefs : ParseDocument(f)
    \/ \E f \in DirectRefs : ParseDocumentChunk(f)
    \/ \E refs \in RefLists : BatchParseDocuments(refs)
    \/ \E c \in Calls : Resume(c)
    \/ Responds
    \/ BatchReturn

Spec == Init /\ [][Next]_vars

\* The probes, beside parse calls in flight.
NextProbe ==
    \/ \E op \in {"check_health", "get_server_info"} : ProbeStart(op)
    \/ \E resp \in HealthResponses : ProbeRespond(resp)
    \/ \E f \in DirectRefs : ParseDocument(f)
    \/ \E c \in Calls : Resume(c)
    \/ Responds

SpecProbe == Init /\ [][NextProbe]_vars

\* The same client when the event loop runs every callback it has scheduled
\* (a call whose semaphore future was set, batch_parse_documents once gather
\* is done) and every POST ends, with a response, an error or a timeout.
Fairness ==
    /\ \A c \in Calls : WF_vars(Resume(c))
    /\ \A c \in Calls :
          WF_vars(\E resp \in ParseResponses(request[c].saved_filename) :
                     Respond(c, resp))
    /\ WF_vars(BatchReturn)

\* A client with at least one unit, on a server that fails by not answering
\* in time.
InitFair == Constructed(1..MaxConcurrent, {TransportFailure("ReadTimeout")})

\* Concurrent parse calls and a batch.
NextFair ==
    \/ \E f \in DirectRefs : ParseDocument(f)
    \/ \E refs \in RefLists : BatchParseDocuments(refs)
    \/ \E c \in Calls : Resume(c)
    \/ Responds
    \/ BatchReturn

SpecFair == InitFair /\ [][NextFair]_vars /\ Fairness

\* The options a caller may pass: none, an empty dict, a dict that overrides
\* a default of parse, and one that overrides a default of chunk and brings
\* a key neither endpoint has a default for.
OptionChoices ==
    {NoOptions,
     Options(EmptyDict),
     Options("include_bbox" :> "False"),
     Options(("table_format" :> "html") @@ ("custom" :> "x"))}

\* A client made with the default max_concurrent.
InitOptions == Constructed({DefaultMaxConcurrent}, {HttpResponse(500, ErrorBody)})

\* The client under parse, chunk and batch calls that pass options, on a
\* server that parses every document it is sent.
NextOptions ==
    \/ \E f \in DirectRefs : \E o \in OptionChoices : Call("parse", f, o)
    \/ \E f \in DirectRefs : \E o \in OptionChoices : Call("chunk", f, o)
    \/ \E n \in 0..NCalls : \E o \in OptionChoices :
          BatchParseDocumentsWith([i \in 1..n |-> "a.pdf"], o)
    \/ \E c \in Calls :
          Respond(c, HttpResponse(200, Text("object", "name",
                                            request[c].saved_filename)))
    \/ BatchReturn

SpecOptions == InitOptions /\ [][NextOptions]_vars

\* ================================================================ claims
InFlight == {c \in Calls : pc[c] = "inflight"}
Holders == {c \in Calls : holds[c] > 0}
InProgress == {c \in Calls : pc[c] \in {"waiting", "woken", "inflight"}}
Direct == {c \in Calls : kind[c] \in {"parse", "chunk"}}

\* The response is a 2xx whose body decodes.
Succeeded(resp) ==
    /\ resp.tag = "response"
    /\ resp.status_code \in 200..299
    /\ resp.text.syntax \in {"object", "array", "null"}

\* The parse of document f, as the remote service words it.
ParseOf(f) == Value("dict", "name", f)

\* C1: whatever calls are issued and however they interleave, at most
\* max_concurrent calls hold a limiter unit, and at most max_concurrent POSTs
\* are outstanding.
C1_AtMostMaxConcurrent ==
    /\ Cardinality(Holders) <= max_concurrent
    /\ Cardinality(InFlight) <= max_concurrent
    /\ \A c \in Calls : holds[c] <= 1

\* More calls than units: max_concurrent POSTs out, a chunk call among them,
\* and a call queued behind them.
C1_Witness ==
    /\ Cardinality(InFlight) = max_concurrent
    /\ \E c \in InFlight : kind[c] = "chunk"
    /\ \E c \in Calls : pc[c] = "waiting"

\* C2: a call holds exactly one unit from before its POST until it ends, and
\* none before or after, on every way out; the free units plus the units
\* held are max_concurrent, and with no call in progress every unit is free.
C2_AcquireReleaseBalanced ==
    /\ \A c \in Calls : holds[c] \in {0, 1}
    /\ sem_value + Cardinality(Holders) = max_concurrent
    /\ \A c \in Calls : pc[c] = "inflight" => holds[c] = 1
    /\ \A c \in Calls : pc[c] \in {"idle", "waiting", "done"} => holds[c] = 0
    /\ InProgress = {} => sem_value = max_concurrent

\* A chunk call has ended by raising, a parse call by returning, nothing is
\* in progress, and every unit is back.
C2_Witness ==
    /\ InProgress = {}
    /\ sem_value = max_concurrent
    /\ \E c \in Calls : kind[c] = "chunk" /\ pc[c] = "done" /\ result[c].tag = "raise"
    /\ \E c \in Calls : kind[c] = "parse" /\ pc[c] = "done" /\ result[c].tag = "return"

\* C3: the sequence batch_parse_documents returns holds at index i the parse
\* of refs[i] when item i's call succeeded and None when it failed.
C3_BatchPositional ==
    batch.pc = "done" =>
        \A i \in 1..Len(batch.refs) :
            /\ i <= Len(batch.results)
            /\ batch.results[i] =
                 IF Succeeded(response[batch.tasks[i]])
                     THEN ParseOf(batch.refs[i])
                 ELSE None

\* A batch of three returned with the middle item failed and the outer two,
\* which name different documents, parsed, after the POSTs ended in another
\* order than the list's.
C3_Witness ==
    /\ batch.pc = "done"
    /\ batch.overtaken
    /\ Len(batch.refs) = 3
    /\ batch.refs[1] # batch.refs[3]
    /\ batch.results = <<ParseOf(batch.refs[1]), None, ParseOf(batch.refs[3])>>

\* C4: batch_parse_documents returns only when every item has issued its
\* POST and seen it end, failed items included, and returns one element per
\* reference (none for no reference).
C4_BatchWaitsForAll ==
    batch.pc = "done" =>
        /\ Len(batch.results) = Len(batch.refs)
        /\ Len(batch.tasks) = Len(batch.refs)
        /\ \A i \in 1..Len(batch.tasks) :
             /\ pc[batch.tasks[i]] = "done"
             /\ request[batch.tasks[i]].method = "POST"
             /\ response[batch.tasks[i]] # NoResponse

\* A batch returned whose first item failed and whose last item parsed.
C4_Witness ==
    /\ batch.pc = "done"
    /\ Len(batch.refs) >= 2
    /\ ~Succeeded(response[batch.tasks[1]])
    /\ Succeeded(response[batch.tasks[Len(batch.tasks)]])

\* C5: _safe_parse_document never raises: it returns the parse on success
\* and None on any failure; the batch's elements are values, no exceptions.
C5_SafeParseNeverRaises ==
    /\ \A c \in Calls : (kind[c] = "safe" /\ pc[c] = "done") =>
         /\ result[c].tag = "return"
         /\ result[c].value =
              IF Succeeded(response[c]) THEN ParseOf(saved_filename[c]) ELSE None
    /\ batch.pc = "done" =>
         \A i \in 1..Len(batch.results) : batch.results[i].type # "exception"

\* A batch item whose POST failed with a 404 has ended by returning None.
C5_Witness ==
    \E c \in Calls :
        /\ kind[c] = "safe" /\ pc[c] = "done"
        /\ response[c].tag = "response" /\ response[c].status_code = 404
        /\ result[c] = Return(None)

StatusErrorClasses ==
    {"ValueError", "FileNotFoundError", "RuntimeError", "HTTPStatusError"}

\* The class parse_document is to raise for a non-2xx status.
ClassForStatus(status) ==
    CASE status = 400 -> "ValueError"
      [] status = 404 -> "FileNotFoundError"
      [] status = 500 -> "RuntimeError"
      [] OTHER -> "HTTPStatusError"

C7_ErrorCarriesBody ==
    \A c \in Calls :
        (/\ kind[c] = "parse" /\ pc[c] = "done"
         /\ response[c].tag = "response"
         /\ response[c].status_code \in {400, 404})
        => (result[c].tag = "raise" /\ result[c].arg = response[c].text)

\* The kind a caller's except clauses take an exception of class cls for:
\* ValueError is InvalidRequest, FileNotFoundError NotFound, RuntimeError
\* ServerError, HTTPStatusError Unclassified, anything else a transport
\* error.
KindOf(cls) ==
    IF IsInstance(cls, "ValueError") THEN "InvalidRequest"
    ELSE IF IsInstance(cls, "FileNotFoundError") THEN "NotFound"
    ELSE IF IsInstance(cls, "RuntimeError") THEN "ServerError"
    ELSE IF IsInstance(cls, "HTTPStatusError") THEN "Unclassified"
    ELSE "TransportError"

\* C8: when the transport fails, or a 2xx body cannot be decoded, the call
\* raises an error of the transport kind, which no except clause for
\* InvalidRequest, NotFound, ServerError or Unclassified takes.
C8_TransportKindDistinct ==
    \A c \in Direct :
        (/\ pc[c] = "done"
         /\ \/ response[c].tag = "error"
            \/ /\ response[c].tag = "response"
               /\ response[c].status_code \in 200..299
               /\ response[c].text.syntax = "invalid")
        => (result[c].tag = "raise" /\ KindOf(result[c].cls) = "TransportError")

\* C9: check_health never raises and returns True exactly for a 200 whose
\* body is a mapping with status "healthy"; False otherwise.
C9_CheckHealth ==
    (probe.op = "check_health" /\ probe.pc = "done") =>
        /\ probe.result.tag = "return"
        /\ probe.result.value =
             IF /\ probe.response.tag = "response"
                /\ probe.response.status_code = 200
                /\ probe.response.text = Text("object", "status", "healthy")
                 THEN PyTrue
             ELSE PyFalse

\* check_health has returned False for a 200 that says "degraded".
C9_Witness ==
    /\ probe.op = "check_health" /\ probe.pc = "done"
    /\ probe.response = HttpResponse(200, Text("object", "status", "degraded"))
    /\ probe.result = Return(PyFalse)

\* The Python value of a JSON text.
Decoded(text) ==
    IF text.syntax = "object" THEN Value("dict", text.key, text.val)
    ELSE IF text.syntax = "array" THEN Value("list", "", "")
    ELSE None

\* C10: get_server_info never raises: it returns the decoded body of a 2xx
\* response whose body decodes, and None for everything else.
C10_GetServerInfo ==
    (probe.op = "get_server_info" /\ probe.pc = "done") =>
        /\ probe.result.tag = "return"
        /\ probe.result.value =
             IF Succeeded(probe.response) THEN Decoded(probe.response.text)
             ELSE None

\* get_server_info has returned None for a 503.
C10_Witness ==
    /\ probe.op = "get_server_info" /\ probe.pc = "done"
    /\ probe.response.tag = "response" /\ probe.response.status_code = 503
    /\ probe.result = Return(None)

\* C11: whatever options a caller supplies (None, an empty dict, keys that
\* overlap the defaults or not), the options of the POST are the defaults of
\* the endpoint with the supplied keys laid over them: a supplied key has
\* the supplied value, a default key that was not supplied has its default
\* value, and there is no other key.
DefaultsOf(c) == IF kind[c] = "chunk" THEN DefaultOptionsV2 ELSE DefaultOptions
SuppliedBy(c) == IF options[c].given THEN options[c].map ELSE EmptyDict
C11_OptionsOverlayDefaults ==
    \A c \in Calls : posts[c] > 0 =>
        LET sent == request[c].options
        IN  /\ DOMAIN sent = DOMAIN DefaultsOf(c) \cup DOMAIN SuppliedBy(c)
            /\ \A k \in DOMAIN SuppliedBy(c) : sent[k] = SuppliedBy(c)[k]
            /\ \A k \in DOMAIN DefaultsOf(c) \ DOMAIN SuppliedBy(c) :
                  sent[k] = DefaultsOf(c)[k]

\* A chunk request and a parse request that each override one default, the
\* chunk request passing a key of its own through.
C11_Witness ==
    \E c, d \in Calls :
        /\ kind[c] = "chunk" /\ posts[c] = 1
        /\ options[c] = Options(("table_format" :> "html") @@ ("custom" :> "x"))
        /\ request[c].options = ("use_ai_description" :> "True")
              @@ ("table_format" :> "html") @@ ("custom" :> "x")
        /\ kind[d] = "parse" /\ posts[d] = 1
        /\ options[d] = Options("include_bbox" :> "False")
        /\ request[d].options["include_bbox"] = "False"
        /\ request[d].options["use_xparser_description"] = "True"

\* C12: every request of parse (and of the batch items, which go through
\* it) is a POST to /api/v1/parse, every request of parse_document_chunk is
\* a POST to /api/v2/chunk, and the two never go to the same path.
C12_ParsePostsToV1 ==
    /\ \A c \in Calls : posts[c] > 0 =>
          /\ request[c].method = "POST"
          /\ request[c].path = IF kind[c] = "chunk" THEN "/api/v2/chunk"
                               ELSE "/api/v1/parse"
    /\ \A c, d \in Calls :
          (posts[c] > 0 /\ posts[d] > 0 /\ kind[c] = "chunk" /\ kind[d] # "chunk")
              => request[c].path # request[d].path

\* C13: no call posts twice, whatever the outcome of its POST: a call that
\* waits for the semaphore has posted nothing, a call in flight or ended has
\* posted exactly once, and a batch posts once for each of its references
\* and no more than that in total.
Posted == {c \in Calls : posts[c] > 0}
C13_NoRetries ==
    /\ \A c \in Calls :
          /\ posts[c] <= 1
          /\ pc[c] \in {"idle", "waiting", "woken"} => posts[c] = 0
          /\ pc[c] \in {"inflight", "done"} => posts[c] = 1
    /\ Cardinality({c \in Posted : kind[c] = "safe"}) <= Len(batch.refs)
    /\ batch.pc = "done" =>
          \A i \in 1..Len(batch.refs) :
              /\ posts[batch.tasks[i]] = 1
              /\ request[batch.tasks[i]].saved_filename = batch.refs[i]

\* A batch over as many references as there are slots has returned, one of
\* its POSTs having failed, beside nothing else.
C13_Witness ==
    /\ batch.pc = "done" /\ Len(batch.refs) = NCalls
    /\ \E i \in 1..NCalls : ~Succeeded(response[batch.tasks[i]])
    /\ \A i \in 1..NCalls : posts[batch.tasks[i]] = 1

\* C14: a step in which the POST of call c fails (error status, body that
\* is not JSON, timeout or connection error) shows the error to c alone.  For
\* every other call the arguments, the request, the response and the result
\* are the same after the step as before; so is its place, except that the
\* unit c gives back goes to the first call of the queue if one waits, whose
\* future is set, and to the semaphore's counter otherwise.  The queue, the
\* capacity, the batch's results and the probe do not change, and exactly
\* one unit moves.  A call whose own POST succeeded has its document
\* whatever became of the others.
Fails(c) ==
    pc[c] = "inflight" /\ pc'[c] = "done" /\ ~Succeeded(response'[c])
C14_FailureIsolated ==
    /\ [](\A d \in Calls : (pc[d] = "done" /\ Succeeded(response[d])) =>
             (result[d].tag = "return" /\ result[d].value # None))
    /\ [][\A c \in Calls : Fails(c) =>
            /\ IF kind[c] = "safe" THEN result'[c] = Return(None)
               ELSE result'[c].tag = "raise"
            /\ holds[c] = 1 /\ holds'[c] = 0
            /\ \A d \in Calls \ {c} :
                  /\ kind'[d] = kind[d]
                  /\ saved_filename'[d] = saved_filename[d]
                  /\ bucket_name'[d] = bucket_name[d]
                  /\ options'[d] = options[d]
                  /\ request'[d] = request[d]
                  /\ posts'[d] = posts[d]
                  /\ response'[d] = response[d]
                  /\ result'[d] = result[d]
                  /\ \/ pc'[d] = pc[d] /\ holds'[d] = holds[d]
                     \/ /\ d = FirstWaiting(sem_waiters, pc)
                        /\ pc'[d] = "woken" /\ holds'[d] = 1
                        /\ sem_value' = sem_value
            /\ sem_waiters' = sem_waiters
            /\ sem_value' \in {sem_value, sem_value + 1}
            /\ sem_value' + Cardinality({d \in Calls : holds'[d] > 0})
                  = sem_value + Cardinality(Holders)
            /\ max_concurrent' = max_concurrent
            /\ batch'.pc = batch.pc /\ batch'.results = batch.results
            /\ batch'.tasks = batch.tasks /\ batch'.refs = batch.refs
            /\ probe' = probe]_vars

\* A direct call has raised on a timeout while the call issued after it got
\* its document and a third is still in flight.
C14_Witness ==
    \E c, d, e \in Calls :
        /\ pc[c] = "done" /\ kind[c] # "safe"
        /\ response[c] = TransportFailure("ReadTimeout")
        /\ result[c].tag = "raise"
        /\ pc[d] = "done" /\ result[d] = Return(ParseOf(saved_filename[d]))
        /\ pc[e] = "inflight"

\* C15: with max_concurrent >= 1 and more calls than units, if every POST
\* ends, every call suspended on acquire gets a unit, posts and ends; no
\* state with a call under way is stuck (some call is in flight or about to
\* run); and a batch that is gathering returns.
C15_Progress ==
    /\ [](max_concurrent >= 1 /\ InProgress # {} =>
             \E c \in Calls : pc[c] \in {"woken", "inflight"})
    /\ \A c \in Calls :
          (max_concurrent >= 1 /\ pc[c] = "waiting") ~> (pc[c] = "inflight")
    /\ \A c \in Calls :
          (max_concurrent >= 1 /\ pc[c] = "waiting") ~> (pc[c] = "done")
    /\ (max_concurrent >= 1 /\ batch.pc = "gathering") ~> (batch.pc = "done")

\* A batch over more references than there are units, started on an idle
\* client, has returned: its last items had to queue.
C15_Witness ==
    /\ max_concurrent >= 1 /\ max_concurrent < NCalls
    /\ batch.pc = "done" /\ Len(batch.refs) = NCalls
    /\ \A c \in Calls : pc[c] = "done" /\ posts[c] = 1

\* C16 as the specification states it: a call is suspended on acquire only
\* while max_concurrent POSTs are in flight.
C16_WaitsOnlyAtCapacity ==
    \A c \in Calls :
        pc[c] = "waiting" => Cardinality(InFlight) = max_concurrent

\* C16: a call is suspended on acquire only while max_concurrent POSTs are
\* in flight, or while a call queued before it has been handed a unit and
\* has not run yet to issue its POST.
QueuedBefore(d, c) ==
    \E i, j \in 1..Len(sem_waiters) :
        i < j /\ sem_waiters[i] = d /\ sem_waiters[j] = c
C16_WaitsOnlyBehindCapacityOrWoken ==
    \A c \in Calls :
        pc[c] = "waiting" =>
            \/ Cardinality(InFlight) = max_concurrent
            \/ \E d \in Calls : pc[d] = "woken" /\ QueuedBefore(d, c)

\* A batch over more references than units: exactly max_concurrent POSTs of
\* its items in flight, the rest of the items queued, none ended.
C16_Witness ==
    /\ max_concurrent >= 1
    /\ batch.pc = "gathering" /\ Len(batch.refs) = NCalls
    /\ Cardinality(InFlight) = max_concurrent
    /\ \A c \in Calls : pc[c] \in {"inflight", "waiting"}
    /\ \E c \in Calls : pc[c] = "waiting"

\* C17: check_health and get_server_info do not go through the semaphore.
\* A probe can issue its GET in every state where none is under way, and end
\* in every state where one is, however many POSTs are in flight and however
\* many calls are queued; no step of a probe changes the semaphore's
\* counter, its queue, the units held or any call; and every unit missing
\* from the counter is held by a parse call, never by a probe.
C17_ProbesBypassLimiter ==
    /\ [](probe.pc = "idle" =>
             /\ ENABLED ProbeStart("check_health")
             /\ ENABLED ProbeStart("get_server_info"))
    /\ [](probe.pc = "inflight" =>
             ENABLED (\E resp \in HealthResponses : ProbeRespond(resp)))
    /\ [](sem_value + Cardinality(Holders) = max_concurrent)
    /\ [][probe' # probe =>
            /\ sem_value' = sem_value
            /\ sem_waiters' = sem_waiters
            /\ holds' = holds
            /\ pc' = pc
            /\ request' = request
            /\ posts' = posts]_vars

\* A probe has ended with an answer to its GET while max_concurrent POSTs
\* are in flight, a call is queued behind them and none has ended.
C17_Witness ==
    /\ max_concurrent >= 1
    /\ probe.pc = "done" /\ probe.request.method = "GET"
    /\ probe.response.tag = "response"
    /\ Cardinality(InFlight) = max_concurrent
    /\ sem_value = 0
    /\ \A c \in Calls : pc[c] \in {"inflight", "waiting"}
    /\ \E c \in Calls : pc[c] = "waiting"

\* C18: the POST of a batch item (of _safe_parse_document) is the POST a
\* direct parse_document(ref, options=options) issues: same path, same
\* saved_filename, same merged options, and bucket_name "aidoc".
C18_SafeParseSendsDefaultBucket ==
    \A c \in Calls :
        (kind[c] = "safe" /\ posts[c] > 0) =>
            /\ request[c].bucket_name = "aidoc"
            /\ request[c] = BuildRequest("parse", saved_filename[c],
                                         DefaultBucket, options[c])

\* C19: options do not leak from one call to another.  Whatever calls came
\* before, a call made without options sends exactly the defaults of its
\* endpoint; every call sends keys of its endpoint's defaults and of its own
\* options only, with a default value wherever it did not supply the key
\* itself; two calls to the same endpoint with the same options send the
\* same; and the dict the caller passed is after the call what it was
\* before.
SameEndpoint(c, d) == (kind[c] = "chunk") = (kind[d] = "chunk")
C19_OptionsDoNotLeak ==
    /\ \A c \in Posted :
          ~options[c].given => request[c].options = DefaultsOf(c)
    /\ \A c \in Posted : \A d \in Calls \ {c} :
          \A k \in DOMAIN SuppliedBy(d) \ DOMAIN SuppliedBy(c) :
              IF k \in DOMAIN DefaultsOf(c)
                  THEN request[c].options[k] = DefaultsOf(c)[k]
              ELSE k \notin DOMAIN request[c].options
    /\ \A c, d \in Posted :
          (SameEndpoint(c, d) /\ options[c] = options[d])
              => request[c].options = request[d].options
    /\ \A c \in Calls : caller_options[c] = options[c]

\* Two parse calls in flight together: the first overrode include_bbox, the
\* second passed no options and sent the defaults; the first caller's dict
\* still holds its one key.
C19_Witness ==
    \E c, d \in Calls :
        /\ c < d
        /\ pc[c] = "inflight" /\ pc[d] = "inflight"
        /\ kind[c] = "parse" /\ kind[d] = "parse"
        /\ options[c] = Options("include_bbox" :> "False")
        /\ request[c].options["include_bbox"] = "False"
        /\ caller_options[c] = Options("include_bbox" :> "False")
        /\ options[d] = NoOptions
        /\ request[d].options = DefaultOptions

====
